---- MODULE Spec2Model ----
(***************************************************************************)
(* Model of src/kvs.py: the KVS key-value facade.  A KVS object holds one  *)
(* backend (_database) and one codec (_serialize).  Every operation        *)
(* normalises its key with _convert, and picks the backend's native method *)
(* when hasattr() finds it, a synthesized fallback otherwise.              *)
(*                                                                         *)
(* Python values are records [t, v]; byte strings and texts are sequences  *)
(* of byte values / code points; an operation's outcome is a record with   *)
(* the exception it raised in exc (NoExc when it returned).                *)
(***************************************************************************)
EXTENDS Naturals, Sequences, FiniteSets

VARIABLES database, lifecycle, alive, last

vars == <<database, lifecycle, alive, last>>

\* Integer keys run over 1..MaxKey; text and byte keys are their decimal texts.
MaxKey == 2
\* Caller values are the integers 0..MaxVal.
MaxVal == 1

-----------------------------------------------------------------------------
(* Python values and exceptions *)

None == [t |-> "NoneType", v |-> 0]
PyInt(n) == [t |-> "int", v |-> n]
PyBool(b) == [t |-> "bool", v |-> IF b THEN 1 ELSE 0]

NoExc == ""

Values == {PyInt(n) : n \in 0..MaxVal}

-----------------------------------------------------------------------------
(* Key normalisation: KVS._convert *)

RECURSIVE PyStrInt(_)
\* str(n) for a non-negative int: its decimal digits as code points.
PyStrInt(n) ==
  IF n < 10 THEN <<48 + n>> ELSE PyStrInt(n \div 10) \o <<48 + (n % 10)>>

RECURSIVE Utf8(_)
\* text.encode(encoding = 'UTF8') for code points below 2048.
Utf8(s) ==
  IF s = <<>> THEN <<>>
  ELSE LET cp == Head(s) IN
       (IF cp < 128 THEN <<cp>>
        ELSE <<192 + (cp \div 64), 128 + (cp % 64)>>) \o Utf8(Tail(s))

\* Logical keys are records [type, n, s]: n is the number of a numeric key or
\* the single element of a tuple key, s the content of a text or byte key.
StrKey(s) == [type |-> "str", n |-> 0, s |-> s]
BytesKey(b) == [type |-> "bytes", n |-> 0, s |-> b]
ByteArrayKey(b) == [type |-> "bytearray", n |-> 0, s |-> b]
IntKey(n) == [type |-> "int", n |-> n, s |-> <<>>]
FloatKey(n) == [type |-> "float", n |-> n, s |-> <<>>]
TupleKey(n) == [type |-> "tuple", n |-> n, s |-> <<>>]
ListKey(n) == [type |-> "list", n |-> n, s |-> <<>>]

\* str(key) of the numeric and collection keys: 1 -> "1", 1.0 -> "1.0",
\* (1,) -> "(1,)".
PyStr(key) ==
  CASE key.type = "int" -> PyStrInt(key.n)
    [] key.type = "float" -> PyStrInt(key.n) \o <<46, 48>>
    [] key.type = "tuple" -> <<40>> \o PyStrInt(key.n) \o <<44, 41>>
    [] OTHER -> <<>>

\* Convert with a byte key taken through str() like the numeric keys:
\* b"1" -> b"b'1'".
ConvertRepr(key) ==
  CASE key.type = "bytes" -> [bytes |-> <<98, 39>> \o key.s \o <<39>>, exc |-> NoExc]
    [] key.type = "str" -> [bytes |-> Utf8(key.s), exc |-> NoExc]
    [] key.type = "bytearray" -> [bytes |-> key.s, exc |-> NoExc]
    [] key.type \in {"int", "float", "complex"} ->
         [bytes |-> Utf8(PyStr(key)), exc |-> NoExc]
    [] key.type \in {"range", "tuple", "frozenset"} ->
         [bytes |-> Utf8(PyStr(key)), exc |-> NoExc]
    [] OTHER -> [bytes |-> <<>>, exc |-> "TypeError"]

\* Convert with the type of a numeric key kept in its canonical key: 1 -> b"i1".
ConvertTagged(key) ==
  CASE key.type = "bytes" -> [bytes |-> key.s, exc |-> NoExc]
    [] key.type = "str" -> [bytes |-> Utf8(key.s), exc |-> NoExc]
    [] key.type = "bytearray" -> [bytes |-> key.s, exc |-> NoExc]
    [] key.type \in {"int", "float", "complex"} ->
         [bytes |-> <<105>> \o Utf8(PyStr(key)), exc |-> NoExc]
    [] key.type \in {"range", "tuple", "frozenset"} ->
         [bytes |-> Utf8(PyStr(key)), exc |-> NoExc]
    [] OTHER -> [bytes |-> <<>>, exc |-> "TypeError"]

\* Convert with the fall-through branch coercing the key with str() instead
\* of rejecting it: [1] -> "[1]".
ConvertCoerce(key) ==
  CASE key.type = "bytes" -> [bytes |-> key.s, exc |-> NoExc]
    [] key.type = "str" -> [bytes |-> Utf8(key.s), exc |-> NoExc]
    [] key.type = "bytearray" -> [bytes |-> key.s, exc |-> NoExc]
    [] key.type \in {"int", "float", "complex"} ->
         [bytes |-> Utf8(PyStr(key)), exc |-> NoExc]
    [] key.type \in {"range", "tuple", "frozenset"} ->
         [bytes |-> Utf8(PyStr(key)), exc |-> NoExc]
    [] OTHER -> [bytes |-> Utf8(<<91>> \o PyStrInt(key.n) \o <<93>>), exc |-> NoExc]

Convert(key) ==
  CASE key.type = "bytes" -> [bytes |-> key.s, exc |-> NoExc]
    [] key.type = "str" -> [bytes |-> Utf8(key.s), exc |-> NoExc]
    [] key.type = "bytearray" -> [bytes |-> key.s, exc |-> NoExc]
    [] key.type \in {"int", "float", "complex"} ->
         [bytes |-> Utf8(PyStr(key)), exc |-> NoExc]
    [] key.type \in {"range", "tuple", "frozenset"} ->
         [bytes |-> Utf8(PyStr(key)), exc |-> NoExc]
    [] OTHER -> [bytes |-> <<>>, exc |-> "TypeError"]

\* The keys the operations are called with: every supported spelling of the
\* numbers 1..MaxKey that normalises to the decimal text, and a list key,
\* which is not supported.
LogicalKeys ==
  UNION {{IntKey(n), StrKey(PyStrInt(n)), BytesKey(Utf8(PyStrInt(n))),
          ByteArrayKey(Utf8(PyStrInt(n)))} : n \in 1..MaxKey}
  \cup {ListKey(1)}

SupportedKeys == {k \in LogicalKeys : Convert(k).exc = NoExc}

CanonicalKeys == {Convert(k).bytes : k \in SupportedKeys}

-----------------------------------------------------------------------------
(* The codec: SeCo(serialize = 'json', compress = 'zlib') *)

\* dumps: the JSON text of the value, UTF-8 encoded, inside a zlib frame
\* (header bytes 0x78 0x9c).  The output is never empty.
Dumps(value) == <<120, 156>> \o Utf8(PyStrInt(value.v))

RECURSIVE ParseInt(_)
ParseInt(b) ==
  IF b = <<>> THEN 0
  ELSE 10 * ParseInt(SubSeq(b, 1, Len(b) - 1)) + (b[Len(b)] - 48)

\* loads: fails on bytes that are no zlib frame (the empty byte string too).
Loads(b) ==
  IF Len(b) >= 3 /\ b[1] = 120 /\ b[2] = 156
  THEN [ret |-> PyInt(ParseInt(SubSeq(b, 3, Len(b)))), exc |-> NoExc]
  ELSE [ret |-> None, exc |-> "zlib.error"]

\* What a backend can hold under a key: the encoding of a caller value, or an
\* empty byte string (written by another user of the same backend).
StoredBytes == {Dumps(v) : v \in Values} \cup {<<>>}

-----------------------------------------------------------------------------
(* Backends.  database = [kind, data, closed]: data maps the canonical keys  *)
(* that have an entry to their stored bytes; closed is the state of the      *)
(* backend's own handle.                                                     *)

\* The backend variants __init__ can end up with:
\*   memory   the fresh dict of ':memory:'
\*   gdbm     dbm.gnu opened from a path (operations on a closed handle raise)
\*   dumb     dbm.dumb opened from a path, when dbm.gnu is not installed
\*   dict     a caller-supplied dict
\*   mapping  a caller-supplied object with item access and keys() only
\*   bare     a caller-supplied object with item access only
\*   client   a caller-supplied store client: set/get/delete/keys/flushall/close
\*   cache    a caller-supplied cache client: set/get/delete/flush_all/close
\*   strict   a store client whose delete reports a missing key with an error
\*            of its own that is not a KeyError
Kinds ==
  {"memory", "gdbm", "dumb", "dict", "mapping", "bare", "client", "cache", "strict"}

ItemAccess == {"__getitem__", "__setitem__", "__delitem__"}

\* The attributes hasattr() finds on each variant.
Attrs(kind) ==
  ItemAccess \cup
  CASE kind \in {"memory", "dict"} ->
         {"get", "__contains__", "keys", "values", "items", "clear"}
    [] kind = "gdbm" ->
         {"get", "__contains__", "keys", "sync", "reorganize", "close"}
    [] kind = "dumb" ->
         {"get", "__contains__", "keys", "values", "items", "clear", "sync", "close"}
    [] kind = "mapping" -> {"keys"}
    [] kind = "bare" -> {}
    [] kind = "client" -> {"set", "get", "delete", "keys", "flushall", "close"}
    [] kind = "cache" -> {"set", "get", "delete", "flush_all", "close"}
    [] kind = "strict" -> {"set", "get", "delete", "keys", "flushall", "close"}

HasAttr(db, name) == name \in Attrs(db.kind)

\* A closed dbm handle refuses every data operation; a closed dbm.gnu handle
\* refuses sync() too.  The clients reconnect on use.
DataFails(db) == db.closed /\ db.kind \in {"gdbm", "dumb"}
SyncFails(db) == db.closed /\ db.kind = "gdbm"

\* Put that rewrites the whole mapping: every other entry is dropped.
PutDropping(data, k, b) == [x \in {k} |-> b]

Put(data, k, b) == [x \in (DOMAIN data) \cup {k} |-> IF x = k THEN b ELSE data[x]]
Remove(data, k) == [x \in (DOMAIN data) \ {k} |-> data[x]]
Empty == [x \in {} |-> <<>>]

\* database.get(key): None for a missing key.
NativeGet(db, k) ==
  IF DataFails(db) THEN [found |-> FALSE, bytes |-> <<>>, exc |-> "error"]
  ELSE IF k \in DOMAIN db.data
       THEN [found |-> TRUE, bytes |-> db.data[k], exc |-> NoExc]
       ELSE [found |-> FALSE, bytes |-> <<>>, exc |-> NoExc]

\* database.__getitem__(key): KeyError for a missing key.
ItemGet(db, k) ==
  IF DataFails(db) THEN [found |-> FALSE, bytes |-> <<>>, exc |-> "error"]
  ELSE IF k \in DOMAIN db.data
       THEN [found |-> TRUE, bytes |-> db.data[k], exc |-> NoExc]
       ELSE [found |-> FALSE, bytes |-> <<>>, exc |-> "KeyError"]

\* database.set(key, value) and database.__setitem__(key, value).
NativeSet(db, k, b) ==
  IF DataFails(db) THEN [db |-> db, exc |-> "error"]
  ELSE [db |-> [db EXCEPT !.data = Put(db.data, k, b)], exc |-> NoExc]

ItemSet(db, k, b) ==
  IF DataFails(db) THEN [db |-> db, exc |-> "error"]
  ELSE [db |-> [db EXCEPT !.data = Put(db.data, k, b)], exc |-> NoExc]

\* database.delete(key): a missing key is no error for the clients, and the
\* store's own not-found error for the strict client.
NativeDelete(db, k) ==
  IF DataFails(db) THEN [db |-> db, exc |-> "error"]
  ELSE IF k \in DOMAIN db.data
       THEN [db |-> [db EXCEPT !.data = Remove(db.data, k)], exc |-> NoExc]
       ELSE [db |-> db, exc |-> IF db.kind = "strict" THEN "NotFound" ELSE NoExc]

\* database.__delitem__(key): KeyError for a missing key.
ItemDelete(db, k) ==
  IF DataFails(db) THEN [db |-> db, exc |-> "error"]
  ELSE IF k \in DOMAIN db.data
       THEN [db |-> [db EXCEPT !.data = Remove(db.data, k)], exc |-> NoExc]
       ELSE [db |-> db, exc |-> "KeyError"]

\* key in database.
NativeContains(db, k) ==
  IF DataFails(db) THEN [ret |-> FALSE, exc |-> "error"]
  ELSE [ret |-> k \in DOMAIN db.data, exc |-> NoExc]

-----------------------------------------------------------------------------
(* The facade's key-value operations, as functions of the backend state.    *)
(* Each yields the exception raised (exc), the value returned (ret) and,    *)
(* when it can write, the backend afterwards (db).                          *)

\* KVS.__getitem__ / get: an empty or absent byte result is "no value".
GetItem(db, key) ==
  LET c == Convert(key) IN
  IF c.exc # NoExc THEN [ret |-> None, exc |-> c.exc]
  ELSE LET value == IF HasAttr(db, "get") THEN NativeGet(db, c.bytes)
                    ELSE ItemGet(db, c.bytes) IN
       IF value.exc # NoExc THEN [ret |-> None, exc |-> value.exc]
       ELSE IF value.found /\ value.bytes # <<>> THEN Loads(value.bytes)
       ELSE [ret |-> None, exc |-> NoExc]

\* KVS.__delitem__ / delete: only a KeyError of the backend is swallowed.
DelItem(db, key) ==
  LET c == Convert(key) IN
  IF c.exc # NoExc THEN [db |-> db, exc |-> c.exc]
  ELSE LET r == IF HasAttr(db, "delete") THEN NativeDelete(db, c.bytes)
                ELSE ItemDelete(db, c.bytes) IN
       IF r.exc = "KeyError" THEN [db |-> r.db, exc |-> NoExc] ELSE r

\* SetItem with the value written as its bare JSON text, dumps left out.
SetItemNoDumps(db, key, value) ==
  LET c == Convert(key) IN
  IF c.exc # NoExc THEN [db |-> db, exc |-> c.exc]
  ELSE IF value # None
       THEN IF HasAttr(db, "set")
            THEN NativeSet(db, c.bytes, Utf8(PyStrInt(value.v)))
            ELSE ItemSet(db, c.bytes, Utf8(PyStrInt(value.v)))
       ELSE DelItem(db, BytesKey(c.bytes))

\* SetItem without the None branch: None is serialized (JSON null) and stored
\* like any other value.
SetItemStoresNone(db, key, value) ==
  LET c == Convert(key)
      b == IF value = None THEN <<120, 156, 110, 117, 108, 108>> ELSE Dumps(value)
  IN
  IF c.exc # NoExc THEN [db |-> db, exc |-> c.exc]
  ELSE IF HasAttr(db, "set") THEN NativeSet(db, c.bytes, b)
       ELSE ItemSet(db, c.bytes, b)

\* KVS.__setitem__ / set / put: a None value deletes, with the key already
\* converted to bytes.
SetItem(db, key, value) ==
  LET c == Convert(key) IN
  IF c.exc # NoExc THEN [db |-> db, exc |-> c.exc]
  ELSE IF value # None
       THEN IF HasAttr(db, "set") THEN NativeSet(db, c.bytes, Dumps(value))
            ELSE ItemSet(db, c.bytes, Dumps(value))
       ELSE DelItem(db, BytesKey(c.bytes))

\* KVS.__contains__: the native check, else get on the converted key.
Contains(db, key) ==
  LET c == Convert(key) IN
  IF c.exc # NoExc THEN [ret |-> FALSE, exc |-> c.exc]
  ELSE IF HasAttr(db, "__contains__") THEN NativeContains(db, c.bytes)
  ELSE LET g == GetItem(db, BytesKey(c.bytes)) IN
       [ret |-> g.exc = NoExc /\ g.ret # None, exc |-> g.exc]

\* KVS.pop: get, then delete, then return the value read.
Pop(db, key) ==
  LET g == GetItem(db, key) IN
  IF g.exc # NoExc THEN [db |-> db, ret |-> None, exc |-> g.exc]
  ELSE LET d == DelItem(db, key) IN
       [db |-> d.db, ret |-> IF d.exc = NoExc THEN g.ret ELSE None, exc |-> d.exc]

\* KVS.__call__: get when no value is given, set otherwise (returns None).
Call(db, key, value) ==
  IF value = None
  THEN LET g == GetItem(db, key) IN [db |-> db, ret |-> g.ret, exc |-> g.exc]
  ELSE LET r == SetItem(db, key, value) IN [db |-> r.db, ret |-> None, exc |-> r.exc]

-----------------------------------------------------------------------------
(* Enumeration.  ord is the order in which the backend yields its keys; an  *)
(* enumeration that raises has yielded the elements before the failure.     *)

\* The orders a backend can yield the key set S in.
Orders(S) ==
  {o \in [1..Cardinality(S) -> S] : {o[i] : i \in 1..Cardinality(S)} = S}

\* KVS.keys: the backend's keys, nothing when it has no keys().
Keys(db, ord) ==
  IF HasAttr(db, "keys")
  THEN IF DataFails(db) THEN [keys |-> <<>>, exc |-> "error"]
       ELSE [keys |-> ord, exc |-> NoExc]
  ELSE [keys |-> <<>>, exc |-> NoExc]

RECURSIVE NativeItems(_, _)
\* map(loads, database.items()): every stored value goes through loads.
NativeItems(db, ord) ==
  IF ord = <<>> THEN [keys |-> <<>>, vals |-> <<>>, exc |-> NoExc]
  ELSE LET l == Loads(db.data[Head(ord)]) IN
       IF l.exc # NoExc THEN [keys |-> <<>>, vals |-> <<>>, exc |-> l.exc]
       ELSE LET rest == NativeItems(db, Tail(ord)) IN
            [keys |-> <<Head(ord)>> \o rest.keys,
             vals |-> <<l.ret>> \o rest.vals, exc |-> rest.exc]

RECURSIVE GetEach(_, _)
\* for key in self.keys(): yield (key, self.__getitem__(key))
GetEach(db, ks) ==
  IF ks = <<>> THEN [keys |-> <<>>, vals |-> <<>>, exc |-> NoExc]
  ELSE LET g == GetItem(db, BytesKey(Head(ks))) IN
       IF g.exc # NoExc THEN [keys |-> <<>>, vals |-> <<>>, exc |-> g.exc]
       ELSE LET rest == GetEach(db, Tail(ks)) IN
            [keys |-> <<Head(ks)>> \o rest.keys,
             vals |-> <<g.ret>> \o rest.vals, exc |-> rest.exc]

\* KVS.items: native items() decoded, else keys() plus get.
Items(db, ord) ==
  IF HasAttr(db, "items")
  THEN IF DataFails(db) THEN [keys |-> <<>>, vals |-> <<>>, exc |-> "error"]
       ELSE NativeItems(db, ord)
  ELSE LET ks == Keys(db, ord) IN
       IF ks.exc # NoExc THEN [keys |-> <<>>, vals |-> <<>>, exc |-> ks.exc]
       ELSE GetEach(db, ks.keys)

\* KVS.values: native values() decoded, else keys() plus get.
ValuesOf(db, ord) ==
  IF HasAttr(db, "values")
  THEN IF DataFails(db) THEN [vals |-> <<>>, exc |-> "error"]
       ELSE LET r == NativeItems(db, ord) IN [vals |-> r.vals, exc |-> r.exc]
  ELSE LET ks == Keys(db, ord) IN
       IF ks.exc # NoExc THEN [vals |-> <<>>, exc |-> ks.exc]
       ELSE LET r == GetEach(db, ks.keys) IN [vals |-> r.vals, exc |-> r.exc]

-----------------------------------------------------------------------------
(* Lifecycle operations.  nsync and nclose count the calls of the backend's *)
(* own sync() and close() that the operation made.                          *)

\* KVS.sync
\* Sync without the hasattr probe: database.sync() is called on every backend.
SyncUnguarded(db) ==
  IF HasAttr(db, "sync")
  THEN [exc |-> IF SyncFails(db) THEN "error" ELSE NoExc, nsync |-> 1]
  ELSE [exc |-> "AttributeError", nsync |-> 0]

Sync(db) ==
  IF HasAttr(db, "sync")
  THEN [exc |-> IF SyncFails(db) THEN "error" ELSE NoExc, nsync |-> 1]
  ELSE [exc |-> NoExc, nsync |-> 0]

\* KVS.optimize
Optimize(db) ==
  IF HasAttr(db, "reorganize")
  THEN [exc |-> IF DataFails(db) THEN "error" ELSE NoExc]
  ELSE [exc |-> NoExc]

\* KVS.close: sync, then the backend's close() when it has one.
Close(db) ==
  LET s == Sync(db) IN
  IF s.exc # NoExc THEN [db |-> db, exc |-> s.exc, nsync |-> s.nsync, nclose |-> 0]
  ELSE IF HasAttr(db, "close")
       THEN [db |-> [db EXCEPT !.closed = TRUE], exc |-> NoExc,
             nsync |-> s.nsync, nclose |-> 1]
       ELSE [db |-> db, exc |-> NoExc, nsync |-> s.nsync, nclose |-> 0]

\* KVS.__del__: sync, then close (which syncs again).
Del(db) ==
  LET s == Sync(db) IN
  IF s.exc # NoExc THEN [db |-> db, exc |-> s.exc, nsync |-> s.nsync, nclose |-> 0]
  ELSE LET c == Close(db) IN
       [db |-> c.db, exc |-> c.exc, nsync |-> s.nsync + c.nsync, nclose |-> c.nclose]

RECURSIVE DeleteEachSkipping(_, _)
\* DeleteEach over a live key view: every deletion makes the iteration skip
\* the key that follows.
DeleteEachSkipping(db, ks) ==
  IF ks = <<>> THEN [db |-> db, exc |-> NoExc]
  ELSE LET d == DelItem(db, BytesKey(Head(ks))) IN
       IF d.exc # NoExc THEN d
       ELSE DeleteEachSkipping(d.db, IF Len(ks) > 1 THEN Tail(Tail(ks)) ELSE <<>>)

RECURSIVE DeleteEach(_, _)
\* for key in self.keys(): self.__delitem__(key)
DeleteEach(db, ks) ==
  IF ks = <<>> THEN [db |-> db, exc |-> NoExc]
  ELSE LET d == DelItem(db, BytesKey(Head(ks))) IN
       IF d.exc # NoExc THEN d ELSE DeleteEach(d.db, Tail(ks))

\* database.clear(), flushall(), flush_all(): every entry is removed.
NativeClear(db) ==
  IF DataFails(db) THEN [db |-> db, exc |-> "error"]
  ELSE [db |-> [db EXCEPT !.data = Empty], exc |-> NoExc]

\* KVS.clear: clear/flushall/flush_all when the backend has one, else delete
\* every key of keys() and optimize.
Clear(db, ord) ==
  IF HasAttr(db, "clear") THEN NativeClear(db)
  ELSE IF HasAttr(db, "flushall") THEN NativeClear(db)
  ELSE IF HasAttr(db, "flush_all") THEN NativeClear(db)
  ELSE LET ks == Keys(db, ord) IN
       IF ks.exc # NoExc THEN [db |-> db, exc |-> ks.exc]
       ELSE LET d == DeleteEach(db, ks.keys) IN
            IF d.exc # NoExc THEN d
            ELSE [db |-> d.db, exc |-> Optimize(d.db).exc]

-----------------------------------------------------------------------------
(* State.                                                                   *)
(*   database   the backend the facade holds (_database)                    *)
(*   lifecycle  "Open" until close() has been called, then "Closed"         *)
(*   alive      FALSE once the finalizer __del__ has run                    *)
(*   last       the operation that has just returned or raised: its         *)
(*              arguments, its outcome, what it yielded, and the backend    *)
(*              and lifecycle it started from; "idle" between operations    *)

NoKey == [type |-> "none", n |-> 0, s |-> <<>>]

Outcome(op, key, val, ret, exc, ykeys, yvals, nsync, nclose) ==
  [op |-> op, key |-> key, val |-> val, ret |-> ret, exc |-> exc,
   ykeys |-> ykeys, yvals |-> yvals, nsync |-> nsync, nclose |-> nclose,
   pre |-> database, was |-> lifecycle]

Idle(db, lc) ==
  [op |-> "idle", key |-> NoKey, val |-> None, ret |-> None, exc |-> NoExc,
   ykeys |-> <<>>, yvals |-> <<>>, nsync |-> 0, nclose |-> 0,
   pre |-> db, was |-> lc]

\* KVS.__init__: ':memory:' gives a fresh dict; a path opens the dbm file,
\* which may hold entries already; any other object is used as it is.
InitialData(kind) ==
  IF kind = "memory" THEN {Empty}
  ELSE UNION {[S -> StoredBytes] : S \in SUBSET CanonicalKeys}

Init ==
  /\ \E kind \in Kinds : \E data \in InitialData(kind) :
       database = [kind |-> kind, data |-> data, closed |-> FALSE]
  /\ lifecycle = "Open"
  /\ alive = TRUE
  /\ last = Idle(database, "Open")

\* The caller is between two operations and the object has not been finalized.
Ready == alive /\ last.op = "idle"

DoSet ==
  \E key \in LogicalKeys, value \in Values \cup {None} :
    LET r == SetItem(database, key, value) IN
    /\ Ready
    /\ database' = r.db
    /\ last' = Outcome("set", key, value, None, r.exc, <<>>, <<>>, 0, 0)
    /\ UNCHANGED <<lifecycle, alive>>

DoGet ==
  \E key \in LogicalKeys :
    LET r == GetItem(database, key) IN
    /\ Ready
    /\ last' = Outcome("get", key, None, r.ret, r.exc, <<>>, <<>>, 0, 0)
    /\ UNCHANGED <<database, lifecycle, alive>>

DoDelete ==
  \E key \in LogicalKeys :
    LET r == DelItem(database, key) IN
    /\ Ready
    /\ database' = r.db
    /\ last' = Outcome("delete", key, None, None, r.exc, <<>>, <<>>, 0, 0)
    /\ UNCHANGED <<lifecycle, alive>>

DoContains ==
  \E key \in LogicalKeys :
    LET r == Contains(database, key) IN
    /\ Ready
    /\ last' = Outcome("contains", key, None, PyBool(r.ret), r.exc, <<>>, <<>>, 0, 0)
    /\ UNCHANGED <<database, lifecycle, alive>>

DoPop ==
  \E key \in LogicalKeys :
    LET r == Pop(database, key) IN
    /\ Ready
    /\ database' = r.db
    /\ last' = Outcome("pop", key, None, r.ret, r.exc, <<>>, <<>>, 0, 0)
    /\ UNCHANGED <<lifecycle, alive>>

DoCall ==
  \E key \in LogicalKeys, value \in Values \cup {None} :
    LET r == Call(database, key, value) IN
    /\ Ready
    /\ database' = r.db
    /\ last' = Outcome("call", key, value, r.ret, r.exc, <<>>, <<>>, 0, 0)
    /\ UNCHANGED <<lifecycle, alive>>

DoKeys ==
  \E ord \in Orders(DOMAIN database.data) :
    LET r == Keys(database, ord) IN
    /\ Ready
    /\ last' = Outcome("keys", NoKey, None, None, r.exc, r.keys, <<>>, 0, 0)
    /\ UNCHANGED <<database, lifecycle, alive>>

DoValues ==
  \E ord \in Orders(DOMAIN database.data) :
    LET r == ValuesOf(database, ord) IN
    /\ Ready
    /\ last' = Outcome("values", NoKey, None, None, r.exc, <<>>, r.vals, 0, 0)
    /\ UNCHANGED <<database, lifecycle, alive>>

DoItems ==
  \E ord \in Orders(DOMAIN database.data) :
    LET r == Items(database, ord) IN
    /\ Ready
    /\ last' = Outcome("items", NoKey, None, None, r.exc, r.keys, r.vals, 0, 0)
    /\ UNCHANGED <<database, lifecycle, alive>>

DoSync ==
  LET r == Sync(database) IN
  /\ Ready
  /\ last' = Outcome("sync", NoKey, None, None, r.exc, <<>>, <<>>, r.nsync, 0)
  /\ UNCHANGED <<database, lifecycle, alive>>

DoOptimize ==
  LET r == Optimize(database) IN
  /\ Ready
  /\ last' = Outcome("optimize", NoKey, None, None, r.exc, <<>>, <<>>, 0, 0)
  /\ UNCHANGED <<database, lifecycle, alive>>

DoClose ==
  LET r == Close(database) IN
  /\ Ready
  /\ database' = r.db
  /\ lifecycle' = "Closed"
  /\ last' = Outcome("close", NoKey, None, None, r.exc, <<>>, <<>>, r.nsync, r.nclose)
  /\ UNCHANGED alive

DoClear ==
  \E ord \in Orders(DOMAIN database.data) :
    LET r == Clear(database, ord) IN
    /\ Ready
    /\ database' = r.db
    /\ last' = Outcome("clear", NoKey, None, None, r.exc, <<>>, <<>>, 0, 0)
    /\ UNCHANGED <<lifecycle, alive>>

\* The finalizer runs once, when the object goes away.
DoDel ==
  LET r == Del(database) IN
  /\ Ready
  /\ database' = r.db
  /\ alive' = FALSE
  /\ last' = Outcome("__del__", NoKey, None, None, r.exc, <<>>, <<>>, r.nsync, r.nclose)
  /\ UNCHANGED lifecycle

\* The caller takes the outcome of the operation and goes on.
Resume ==
  /\ alive
  /\ last.op # "idle"
  /\ last' = Idle(database, lifecycle)
  /\ UNCHANGED <<database, lifecycle, alive>>

Next ==
  \/ DoSet \/ DoGet \/ DoDelete \/ DoContains \/ DoPop \/ DoCall
  \/ DoKeys \/ DoValues \/ DoItems
  \/ DoSync \/ DoOptimize \/ DoClose \/ DoClear \/ DoDel
  \/ Resume

Spec == Init /\ [][Next]_vars

-----------------------------------------------------------------------------
(* Properties *)

Supported(key) == Convert(key).exc = NoExc
Canon(key) == Convert(key).bytes
Range(q) == {q[i] : i \in 1..Len(q)}
Absent == [ret |-> None, exc |-> NoExc]

\* The operation op has just been called on an open store with a key of a
\* supported type.
CalledOpen(op) == last.op = op /\ last.was = "Open"
CalledOpenWithKey(op) == CalledOpen(op) /\ Supported(last.key)

\* C1: round trip.  On every backend variant, set(k, v) on an open store with a
\* supported key k and a value v that is not None returns, and get(k) then
\* returns a value equal to v.
C1_RoundTrip ==
  (CalledOpenWithKey("set") /\ last.val # None)
    => /\ last.exc = NoExc
       /\ GetItem(database, last.key) = [ret |-> last.val, exc |-> NoExc]

\* A set of the value 1 has returned on the persistent store, over an entry
\* that held other bytes before.
C1_Witness ==
  /\ CalledOpenWithKey("set")
  /\ last.val = PyInt(1)
  /\ last.exc = NoExc
  /\ database.kind = "gdbm"
  /\ Canon(last.key) \in DOMAIN last.pre.data
  /\ last.pre.data[Canon(last.key)] # Dumps(PyInt(1))

\* C2: get(k) of a key that has no entry returns None and raises nothing, on
\* every backend variant.
C2_GetMissingReturnsNone ==
  (CalledOpenWithKey("get") /\ Canon(last.key) \notin DOMAIN last.pre.data)
    => (last.exc = NoExc /\ last.ret = None)

\* C3: set(k, None) deletes: it raises nothing whether or not k had an entry,
\* and afterwards the backend holds no entry under the canonical key, get(k)
\* returns None and contains(k) is false.
C3_SetNoneDeletes ==
  (CalledOpenWithKey("set") /\ last.val = None)
    => /\ last.exc = NoExc
       /\ Canon(last.key) \notin DOMAIN database.data
       /\ GetItem(database, last.key) = Absent
       /\ Contains(database, last.key) = [ret |-> FALSE, exc |-> NoExc]

\* C4: delete(k) of a key that has no entry raises nothing and leaves every
\* entry unchanged, whatever not-found condition the backend reports.
C4_DeleteMissingIsNoOp ==
  (CalledOpenWithKey("delete") /\ Canon(last.key) \notin DOMAIN last.pre.data)
    => (last.exc = NoExc /\ database = last.pre)

\* C5: contains(k) is true iff get(k) does not return None, with the native
\* containment check and with the get-based fallback, also for an entry whose
\* stored bytes are empty.
C5_ContainsIffGet ==
  CalledOpenWithKey("contains")
    => /\ last.exc = NoExc
       /\ GetItem(database, last.key).exc = NoExc
       /\ last.ret = PyBool(GetItem(database, last.key).ret # None)

\* C6: pop(k) returns what get(k) would have returned just before, raises
\* nothing (it returns None for a key with no entry), leaves get(k) returning
\* None, and changes no other entry.
C6_PopIsGetThenDelete ==
  CalledOpenWithKey("pop")
    => /\ last.exc = NoExc
       /\ GetItem(last.pre, last.key) = [ret |-> last.ret, exc |-> NoExc]
       /\ GetItem(database, last.key) = Absent
       /\ database.data = Remove(last.pre.data, Canon(last.key))

\* C7: enumeration consistency.  With no mutation in between, items() runs to
\* its end, the keys it yields are the keys keys() yields, and each value it
\* yields is what get of its key returns, with native items() and with the
\* items synthesized from keys() and get.
C7_EnumerationConsistent ==
  CalledOpen("items")
    => /\ last.exc = NoExc
       /\ \A ord \in Orders(DOMAIN database.data) :
            Range(Keys(database, ord).keys) = Range(last.ykeys)
       /\ \A i \in 1..Len(last.ykeys) :
            GetItem(database, BytesKey(last.ykeys[i]))
              = [ret |-> last.yvals[i], exc |-> NoExc]

\* C8: clear() empties the store on every backend variant: it raises nothing,
\* and afterwards keys() yields nothing and get(k) returns None for every k.
C8_ClearEmpties ==
  CalledOpen("clear")
    => /\ last.exc = NoExc
       /\ \A ord \in Orders(DOMAIN database.data) :
            Keys(database, ord) = [keys |-> <<>>, exc |-> NoExc]
       /\ \A k \in SupportedKeys : GetItem(database, k) = Absent

\* C9: close() leaves the store Closed, and a close() of a store that is
\* Closed already is a no-op: it raises nothing and calls neither the backend's
\* sync() nor its close() again.
C9_CloseIdempotent ==
  last.op = "close"
    => /\ lifecycle = "Closed"
       /\ last.was = "Closed"
            => (last.exc = NoExc /\ last.nsync = 0 /\ last.nclose = 0)

\* C10: after any number of close() calls, the finalizer raises nothing and
\* leaves a backend that has a close() closed (released once in effect).
C10_TeardownClosesOnce ==
  last.op = "__del__"
    => /\ last.exc = NoExc
       /\ HasAttr(database, "close") => database.closed

-----------------------------------------------------------------------------
(* Backend parity.  Under SpecParity two facades run side by side from      *)
(* construction, one on the fresh dict of ':memory:' and one on a newly     *)
(* created dbm file, and every operation is applied to both.  database is   *)
(* the pair [mem, per] of their backends, and last holds the operation with *)
(* the outcome on each side.                                                *)

ParityOutcome(op, key, val, m, p) ==
  [op |-> op, key |-> key, val |-> val,
   mem |-> [ret |-> m.ret, exc |-> m.exc], per |-> [ret |-> p.ret, exc |-> p.exc],
   pre |-> database]

\* KVS() and KVS(path, flag = 'n'): both stores start empty.
ParityInit ==
  /\ \E kind \in {"gdbm", "dumb"} :
       database = [mem |-> [kind |-> "memory", data |-> Empty, closed |-> FALSE],
                   per |-> [kind |-> kind, data |-> Empty, closed |-> FALSE]]
  /\ lifecycle = "Open"
  /\ alive = TRUE
  /\ last = [op |-> "idle", key |-> NoKey, val |-> None,
             mem |-> Absent, per |-> Absent, pre |-> database]

ParitySet ==
  \E key \in LogicalKeys, value \in Values \cup {None} :
    LET m == SetItem(database.mem, key, value)
        p == SetItem(database.per, key, value) IN
    /\ database' = [mem |-> m.db, per |-> p.db]
    /\ last' = ParityOutcome("set", key, value,
                             [ret |-> None, exc |-> m.exc], [ret |-> None, exc |-> p.exc])
    /\ UNCHANGED <<lifecycle, alive>>

ParityDelete ==
  \E key \in LogicalKeys :
    LET m == DelItem(database.mem, key)
        p == DelItem(database.per, key) IN
    /\ database' = [mem |-> m.db, per |-> p.db]
    /\ last' = ParityOutcome("delete", key, None,
                             [ret |-> None, exc |-> m.exc], [ret |-> None, exc |-> p.exc])
    /\ UNCHANGED <<lifecycle, alive>>

ParityPop ==
  \E key \in LogicalKeys :
    LET m == Pop(database.mem, key)
        p == Pop(database.per, key) IN
    /\ database' = [mem |-> m.db, per |-> p.db]
    /\ last' = ParityOutcome("pop", key, None, m, p)
    /\ UNCHANGED <<lifecycle, alive>>

ParityClear ==
  \E om \in Orders(DOMAIN database.mem.data), op \in Orders(DOMAIN database.per.data) :
    LET m == Clear(database.mem, om)
        p == Clear(database.per, op) IN
    /\ database' = [mem |-> m.db, per |-> p.db]
    /\ last' = ParityOutcome("clear", NoKey, None,
                             [ret |-> None, exc |-> m.exc], [ret |-> None, exc |-> p.exc])
    /\ UNCHANGED <<lifecycle, alive>>

ParityNext == ParitySet \/ ParityDelete \/ ParityPop \/ ParityClear

SpecParity == ParityInit /\ [][ParityNext]_vars

KeySet(r) == Range(r.keys)
ItemPairs(r) == {<<r.keys[i], r.vals[i]>> : i \in 1..Len(r.keys)}

\* C11: backend parity.  After every step of the same sequence of
\* set/delete/pop/clear operations on the Transient Map and on the Persistent
\* Embedded Store, get of every key, keys() as a set and items() as a set give
\* the same result on both.
C11_BackendParity ==
  /\ \A k \in LogicalKeys : GetItem(database.mem, k) = GetItem(database.per, k)
  /\ \A om \in Orders(DOMAIN database.mem.data),
        op \in Orders(DOMAIN database.per.data) :
       /\ Keys(database.mem, om).exc = Keys(database.per, op).exc
       /\ KeySet(Keys(database.mem, om)) = KeySet(Keys(database.per, op))
       /\ Items(database.mem, om).exc = Items(database.per, op).exc
       /\ ItemPairs(Items(database.mem, om)) = ItemPairs(Items(database.per, op))

\* A clear() has emptied both stores, which held two entries each, the
\* persistent one through the delete-every-key fallback.
C11_Witness ==
  /\ last.op = "clear"
  /\ Cardinality(DOMAIN last.pre.per.data) >= 2
  /\ last.pre.per.kind = "gdbm"
  /\ database.per.data = Empty
  /\ database.mem.data = Empty

-----------------------------------------------------------------------------
(* Keys *)

\* The key types _convert accepts.
SupportedTypes ==
  {"bytes", "str", "bytearray", "int", "float", "complex",
   "range", "tuple", "frozenset"}

\* The facade operations that take a key.
KeyOps == {"get", "set", "delete", "contains", "pop", "call"}

\* C12: fail-closed keys.  Every operation that takes a key, called with a key
\* of a type outside the supported set, fails with the unsupported-key-type
\* error (TypeError) and leaves the backend as it was, open or closed.
C12_UnsupportedKeyRejected ==
  (last.op \in KeyOps /\ last.key.type \notin SupportedTypes)
    => (last.exc = "TypeError" /\ database = last.pre)

\* A pop with a list key has been rejected on a store that holds entries.
C12_Witness ==
  /\ last.op = "pop"
  /\ last.key.type = "list"
  /\ last.exc = "TypeError"
  /\ DOMAIN database.data # {}

\* The textual representation of a key of a supported type: the content of a
\* text or (ASCII) byte key, str(key) of the others.
TextOf(key) ==
  IF key.type \in {"str", "bytes", "bytearray"} THEN key.s ELSE PyStr(key)

\* The supported logical keys with the same textual representation as key.
Aliases(key) ==
  {k \in LogicalKeys : k.type \in SupportedTypes /\ TextOf(k) = TextOf(key)}

-----------------------------------------------------------------------------
(* Capabilities *)

\* The backend exposes none of sync, reorganize and close.
NoMaintenance(db) == Attrs(db.kind) \cap {"sync", "reorganize", "close"} = {}

\* C17: capability absence is not an error.  On a backend that exposes no
\* sync, reorganize or close, the calls sync(), optimize() and close() return
\* without raising, call nothing on the backend and leave every entry as it
\* was.
C17_AbsentCapabilityIsNoOp ==
  (last.op \in {"sync", "optimize", "close"} /\ NoMaintenance(last.pre))
    => /\ last.exc = NoExc
       /\ last.nsync = 0 /\ last.nclose = 0
       /\ database.data = last.pre.data

\* close() has returned on the ':memory:' store while it holds entries.
C17_Witness ==
  /\ last.op = "close"
  /\ last.pre.kind = "memory"
  /\ last.exc = NoExc
  /\ DOMAIN database.data # {}

-----------------------------------------------------------------------------
(* Frame *)

\* The entries of data under the canonical keys other than k.
Others(data, k) == [x \in (DOMAIN data) \ {k} |-> data[x]]

\* C19: frame of the single-key operations.  set(k, v), delete(k) and pop(k)
\* change at most the entry under the canonical key of k: every entry under
\* another canonical key is there before and after with the same stored value
\* (and nothing changes when k is rejected); get, contains, keys, values and
\* items change no entry.
C19_SingleKeyFrame ==
  /\ (last.op \in {"set", "delete", "pop"} /\ last.key.type \in SupportedTypes)
       => Others(database.data, Canon(last.key)) = Others(last.pre.data, Canon(last.key))
  /\ (last.op \in {"set", "delete", "pop"} /\ last.key.type \notin SupportedTypes)
       => database.data = last.pre.data
  /\ last.op \in {"get", "contains", "keys", "values", "items"}
       => database.data = last.pre.data

\* set(k, v) has created an entry in a store that already held another one.
C19_Witness ==
  /\ last.op = "set"
  /\ last.val # None
  /\ last.exc = NoExc
  /\ Canon(last.key) \notin DOMAIN last.pre.data
  /\ Canon(last.key) \in DOMAIN database.data
  /\ DOMAIN last.pre.data # {}

-----------------------------------------------------------------------------
(* Idempotence of the normalisation *)

\* Keys of every branch of _convert: the keys the operations are called with,
\* float and tuple keys, and a text key outside ASCII ("é").
NormKeys ==
  LogicalKeys \cup {FloatKey(n) : n \in 1..MaxKey} \cup {TupleKey(n) : n \in 1..MaxKey}
    \cup {StrKey(<<233>>)}

\* C20: the normalisation is idempotent.  For every supported key k, the
\* canonical key of k, passed in again as a byte key, normalises to itself;
\* and every key that keys() or items() has yielded names an entry of the
\* store and, passed back as a byte key, addresses that entry: get and pop
\* have the outcome they have with any logical key of that canonical key, and
\* delete and pop remove exactly that entry.
C20_NormalizeIdempotent ==
  /\ \A k \in NormKeys :
       Convert(k).exc = NoExc
         => Convert(BytesKey(Convert(k).bytes)) = [bytes |-> Convert(k).bytes, exc |-> NoExc]
  /\ (last.op \in {"keys", "items"} /\ last.exc = NoExc)
       => \A b \in Range(last.ykeys) :
            /\ b \in DOMAIN database.data
            /\ \A k \in LogicalKeys :
                 (k.type \in SupportedTypes /\ Convert(k).bytes = b)
                   => /\ GetItem(database, BytesKey(b)) = GetItem(database, k)
                      /\ Pop(database, BytesKey(b)) = Pop(database, k)
            /\ DelItem(database, BytesKey(b)).exc = NoExc
                 => DelItem(database, BytesKey(b)).db.data = Remove(database.data, b)
            /\ Pop(database, BytesKey(b)).exc = NoExc
                 => Pop(database, BytesKey(b)).db.data = Remove(database.data, b)

\* items() has yielded two keys on an open store, and delete of the first
\* yielded key removes its entry.
C20_Witness ==
  /\ CalledOpen("items")
  /\ last.exc = NoExc
  /\ Len(last.ykeys) = 2
  /\ DelItem(database, BytesKey(last.ykeys[1])).exc = NoExc
  /\ last.ykeys[1] \notin DOMAIN DelItem(database, BytesKey(last.ykeys[1])).db.data

-----------------------------------------------------------------------------
(* The stored values, from an empty backend *)

\* Every backend kind, holding nothing.
FreshInit ==
  /\ \E kind \in Kinds : database = [kind |-> kind, data |-> Empty, closed |-> FALSE]
  /\ lifecycle = "Open"
  /\ alive = TRUE
  /\ last = Idle(database, "Open")

SpecFresh == FreshInit /\ [][Next]_vars

\* C18: stored-value invariant.  Starting from an empty backend, after any
\* sequence of facade operations every entry of the backend has the canonical
\* byte key of a supported logical key and, as value, the dumps output of a
\* caller value that is not None: neither None nor a caller value that has not
\* gone through dumps is ever written.
C18_StoredValuesAreDumps ==
  \A k \in DOMAIN database.data :
    /\ k \in CanonicalKeys
    /\ \E v \in Values : database.data[k] = Dumps(v)

\* set(k, None) has returned on a store that held k and still holds another
\* entry.
C18_Witness ==
  /\ last.op = "set"
  /\ last.val = None
  /\ last.exc = NoExc
  /\ Canon(last.key) \in DOMAIN last.pre.data
  /\ Canon(last.key) \notin DOMAIN database.data
  /\ DOMAIN database.data # {}

-----------------------------------------------------------------------------
(* Attribute access: KVS.__getattr__, __setattr__, __delattr__ *)

\* The names defined on the class: its methods and its two slots.
Methods ==
  {"get", "set", "put", "delete", "remove", "pop", "keys", "values", "items",
   "sync", "optimize", "close", "clear"}
Slots == {"_database", "_serialize"}

\* The attribute names the caller uses: one that nothing defines, one that
\* only some backends define (dict and dbm.dumb have update()), and a method
\* of the facade.  The slots are left out: writing one replaces the handle or
\* the codec.
AttrNames == {"a", "update", "get"}

\* The characters of a name.
NameText(name) ==
  CASE name = "a" -> <<97>>
    [] name = "update" -> <<117, 112, 100, 97, 116, 101>>
    [] name = "get" -> <<103, 101, 116>>

NameKey(name) == StrKey(NameText(name))

\* What hasattr(database, name) sees beyond the probed capabilities.
BackendAttrs(kind) ==
  Attrs(kind) \cup (IF kind \in {"memory", "dict", "dumb"} THEN {"update"} ELSE {})

\* The values an attribute read can give besides a stored value: a bound
\* method of the facade, an attribute of the backend object.
FacadeMethod == [t |-> "KVS.method", v |-> 0]
BackendAttribute == [t |-> "backend.attribute", v |-> 0]

\* object.__setattr__ / object.__delattr__ on an instance with __slots__ and
\* no __dict__, for a name that is not a slot: a method is read-only, any
\* other name does not exist.
ObjectAttrExc(name) == IF name \in Slots THEN NoExc ELSE "AttributeError"

\* GetAttr that never asks the backend object: every name the class does not
\* define is looked up in the store.
GetAttrStoreOnly(db, name) ==
  IF name \in Methods THEN [ret |-> FacadeMethod, exc |-> NoExc]
  ELSE LET g == GetItem(db, NameKey(name)) IN [ret |-> g.ret, exc |-> g.exc]

\* Reading kvs.<name>: the class attribute when there is one; else __getattr__,
\* which returns the backend's attribute of that name, and the stored item
\* only when the backend has none.
GetAttr(db, name) ==
  IF name \in Methods THEN [ret |-> FacadeMethod, exc |-> NoExc]
  ELSE IF name \in BackendAttrs(db.kind) THEN [ret |-> BackendAttribute, exc |-> NoExc]
  ELSE LET g == GetItem(db, NameKey(name)) IN [ret |-> g.ret, exc |-> g.exc]

\* Writing kvs.<name> = value, name not a slot: object.__setattr__ raises
\* AttributeError, and the value is set in the store.
SetAttr(db, name, value) ==
  IF ObjectAttrExc(name) = "AttributeError" THEN SetItem(db, NameKey(name), value)
  ELSE [db |-> db, exc |-> NoExc]

\* del kvs.<name>, name not a slot: object.__delattr__ raises AttributeError,
\* and the item is deleted from the store.
DelAttr(db, name) ==
  IF ObjectAttrExc(name) = "AttributeError" THEN DelItem(db, NameKey(name))
  ELSE [db |-> db, exc |-> NoExc]

AttrOutcome(op, name, val, ret, exc) ==
  [op |-> op, name |-> name, val |-> val, ret |-> ret, exc |-> exc, pre |-> database]

AttrKeys == {Convert(NameKey(name)).bytes : name \in AttrNames}

\* What the backend holds when the facade is constructed: nothing for
\* ':memory:', values under any of the names otherwise.
AttrInitialData(kind) ==
  IF kind = "memory" THEN {Empty}
  ELSE UNION {[S -> {Dumps(v) : v \in Values}] : S \in SUBSET AttrKeys}

AttrInit ==
  /\ \E kind \in Kinds : \E data \in AttrInitialData(kind) :
       database = [kind |-> kind, data |-> data, closed |-> FALSE]
  /\ lifecycle = "Open"
  /\ alive = TRUE
  /\ last = [op |-> "idle", name |-> "", val |-> None, ret |-> None, exc |-> NoExc,
             pre |-> database]

DoGetAttr ==
  \E name \in AttrNames :
    LET r == GetAttr(database, name) IN
    /\ last.op = "idle"
    /\ last' = AttrOutcome("getattr", name, None, r.ret, r.exc)
    /\ UNCHANGED <<database, lifecycle, alive>>

DoSetAttr ==
  \E name \in AttrNames, value \in Values \cup {None} :
    LET r == SetAttr(database, name, value) IN
    /\ last.op = "idle"
    /\ database' = r.db
    /\ last' = AttrOutcome("setattr", name, value, None, r.exc)
    /\ UNCHANGED <<lifecycle, alive>>

DoDelAttr ==
  \E name \in AttrNames :
    LET r == DelAttr(database, name) IN
    /\ last.op = "idle"
    /\ database' = r.db
    /\ last' = AttrOutcome("delattr", name, None, None, r.exc)
    /\ UNCHANGED <<lifecycle, alive>>

AttrResume ==
  /\ last.op # "idle"
  /\ last' = [op |-> "idle", name |-> "", val |-> None, ret |-> None, exc |-> NoExc,
              pre |-> database]
  /\ UNCHANGED <<database, lifecycle, alive>>

AttrNext == DoGetAttr \/ DoSetAttr \/ DoDelAttr \/ AttrResume

SpecAttr == AttrInit /\ [][AttrNext]_vars

\* The name is neither a method nor a slot of the facade.
Undeclared(name) == name \notin Methods \cup Slots

\* What get(name), set(name, value) and delete(name) do in the state the
\* attribute operation started from.
GetOf(l) == LET g == GetItem(l.pre, NameKey(l.name)) IN [ret |-> g.ret, exc |-> g.exc]
SetOf(l) == SetItem(l.pre, NameKey(l.name), l.val)
DeleteOf(l) == DelItem(l.pre, NameKey(l.name))

\* Writing and deleting an undeclared attribute are set and delete of its name.
WriteFallsThrough ==
  /\ (last.op = "setattr" /\ Undeclared(last.name))
       => (database = SetOf(last).db /\ last.exc = SetOf(last).exc)
  /\ (last.op = "delattr" /\ Undeclared(last.name))
       => (database = DeleteOf(last).db /\ last.exc = DeleteOf(last).exc)

\* C14 (as stated): for every name that is not a declared field or method of
\* the facade, reading the attribute returns get(name), writing it performs
\* set(name, value) and deleting it performs delete(name), whatever attributes
\* the backend object has.
C14_AttributeFallsThrough ==
  /\ (last.op = "getattr" /\ Undeclared(last.name))
       => [ret |-> last.ret, exc |-> last.exc] = GetOf(last)
  /\ WriteFallsThrough

\* C14 (amended): for every name that is not a declared field or method of
\* the facade, reading the attribute returns the backend object's attribute of
\* that name when the backend has one, and get(name) only when it has none;
\* writing it performs set(name, value) and deleting it performs delete(name),
\* whatever attributes the backend object has.
C14_AttributeFallsThroughAfterBackend ==
  /\ (last.op = "getattr" /\ Undeclared(last.name))
       => IF last.name \in BackendAttrs(last.pre.kind)
          THEN last.ret = BackendAttribute /\ last.exc = NoExc
          ELSE [ret |-> last.ret, exc |-> last.exc] = GetOf(last)
  /\ WriteFallsThrough

\* kvs.update has been read on a dict backend that holds a value under
\* b"update": the read gave dict.update, not the stored value.
C14_Witness ==
  /\ last.op = "getattr"
  /\ last.name = "update"
  /\ last.pre.kind = "dict"
  /\ Convert(NameKey("update")).bytes \in DOMAIN last.pre.data
  /\ GetOf(last).exc = NoExc /\ GetOf(last).ret \in Values
  /\ last.ret = BackendAttribute

\* C15: declared names take precedence.  Reading, writing or deleting an
\* attribute whose name is a declared method of the facade never reads,
\* creates, changes or removes a store entry under that name: the read gives
\* the method, and the store is the same before and after.
C15_DeclaredNamesTakePrecedence ==
  (last.op \in {"getattr", "setattr", "delattr"} /\ last.name \in Methods)
    => /\ database = last.pre
       /\ last.op = "getattr" => last.ret = FacadeMethod

-----------------------------------------------------------------------------
(* Construction: KVS.__init__ *)

\* The database argument: a text, bytes or bytearray with content s, or any
\* other object (here: a backend of the given kind holding data).
TextArg(s) == [type |-> "str", s |-> s, kind |-> "none", data |-> Empty]
BytesArg(b) == [type |-> "bytes", s |-> b, kind |-> "none", data |-> Empty]
ByteArrayArg(b) == [type |-> "bytearray", s |-> b, kind |-> "none", data |-> Empty]
ObjectArg(kind, data) == [type |-> "object", s |-> <<>>, kind |-> kind, data |-> data]

RECURSIVE Utf8Decode(_)
\* bytes.decode(encoding = 'UTF8') for well-formed one- and two-byte sequences.
Utf8Decode(b) ==
  IF b = <<>> THEN <<>>
  ELSE IF Head(b) < 128 THEN <<Head(b)>> \o Utf8Decode(Tail(b))
  ELSE <<(Head(b) - 192) * 64 + (b[2] - 128)>> \o Utf8Decode(Tail(Tail(b)))

\* str.lower() on the code points used here: A-Z and the Latin-1 capitals.
Lower(s) ==
  [i \in 1..Len(s) |->
     IF (s[i] >= 65 /\ s[i] <= 90) \/ (s[i] >= 192 /\ s[i] <= 222 /\ s[i] # 215)
     THEN s[i] + 32 ELSE s[i]]

\* ":memory:", ":MEMORY:", ":Memory:", and two paths: "a" and "É".
Sentinel == <<58, 109, 101, 109, 111, 114, 121, 58>>
SentinelUpper == <<58, 77, 69, 77, 79, 82, 89, 58>>
SentinelMixed == <<58, 77, 101, 109, 111, 114, 121, 58>>
Paths == {<<97>>, <<201>>}

NoHandle == [kind |-> "none", data |-> Empty, closed |-> FALSE]
NotOpened == [path |-> <<>>, flag |-> ""]

\* The flag keyword argument: "" when the caller gives none.
FlagOptions == {"", "c", "n", "w", "r"}

DatabaseArgs ==
  UNION {{TextArg(t), BytesArg(Utf8(t)), ByteArrayArg(Utf8(t))} :
           t \in {Sentinel, SentinelUpper, SentinelMixed} \cup Paths}
  \cup {ObjectArg(kind, Empty) : kind \in Kinds \ {"memory", "gdbm", "dumb"}}

\* dbm.open(path, flag) of the imported dbm module on the file at the path:
\* 'c' creates the file when missing, 'n' always starts a new empty one,
\* 'w' and 'r' need the file to exist.
DbmOpen(module, file, path, flag) ==
  IF flag \in {"w", "r"} /\ ~file.exists
  THEN [handle |-> NoHandle, file |-> file, opened |-> NotOpened, exc |-> "error"]
  ELSE LET data == IF flag = "n" \/ ~file.exists THEN Empty ELSE file.data IN
       [handle |-> [kind |-> module, data |-> data, closed |-> FALSE],
        file |-> [exists |-> TRUE, data |-> data],
        opened |-> [path |-> path, flag |-> flag], exc |-> NoExc]

\* dbm.open(database, flag, **kwargs): with flag among the keyword arguments
\* the call passes flag twice, which is a TypeError before anything is opened.
DbmOpenCall(module, file, path, flag, kwflag) ==
  IF kwflag # ""
  THEN [handle |-> NoHandle, file |-> file, opened |-> NotOpened, exc |-> "TypeError"]
  ELSE DbmOpen(module, file, path, flag)

\* KVS.__init__(database, **kwargs), kwargs holding flag when kwflag # "".
Construct(module, file, arg, kwflag) ==
  IF arg.type \in {"str", "bytes", "bytearray"}
  THEN LET text == IF arg.type \in {"bytes", "bytearray"} THEN Utf8Decode(arg.s) ELSE arg.s IN
       IF Lower(text) = Sentinel
       THEN [handle |-> [kind |-> "memory", data |-> Empty, closed |-> FALSE],
             file |-> file, opened |-> NotOpened, exc |-> NoExc]
       ELSE LET flag == IF kwflag # "" THEN kwflag ELSE "c" IN
            DbmOpenCall(module, file, text, flag, kwflag)
  ELSE [handle |-> [kind |-> arg.kind, data |-> arg.data, closed |-> FALSE],
        file |-> file, opened |-> NotOpened, exc |-> NoExc]

CtorIdle == [op |-> "idle", arg |-> TextArg(<<>>), flag |-> "", opened |-> NotOpened,
             exc |-> NoExc, pre |-> database]

\* Before the first construction: the dbm module that was imported, and the
\* file at the path missing, empty or holding an entry.
CtorInit ==
  /\ \E module \in {"gdbm", "dumb"} :
       \E file \in {[exists |-> FALSE, data |-> Empty], [exists |-> TRUE, data |-> Empty]}
                   \cup {[exists |-> TRUE, data |-> Put(Empty, <<49>>, Dumps(v))] : v \in Values} :
         database = [module |-> module, file |-> file, handle |-> NoHandle]
  /\ lifecycle = "Open"
  /\ alive = TRUE
  /\ last = CtorIdle

DoConstruct ==
  \E arg \in DatabaseArgs, kwflag \in FlagOptions :
    LET r == Construct(database.module, database.file, arg, kwflag) IN
    /\ last.op = "idle"
    /\ database' = [database EXCEPT !.file = r.file, !.handle = r.handle]
    /\ last' = [op |-> "construct", arg |-> arg, flag |-> kwflag, opened |-> r.opened,
                exc |-> r.exc, pre |-> database]
    /\ UNCHANGED <<lifecycle, alive>>

\* The object is finalized: its handle, if any, is synced and closed; the file
\* stays as it is.
DoDiscard ==
  /\ last.op = "construct"
  /\ database' = [database EXCEPT !.handle = NoHandle]
  /\ last' = [CtorIdle EXCEPT !.pre = database']
  /\ UNCHANGED <<lifecycle, alive>>

CtorNext == DoConstruct \/ DoDiscard

SpecCtor == CtorInit /\ [][CtorNext]_vars

\* The text of a text or byte argument.
ArgText(arg) == IF arg.type = "str" THEN arg.s ELSE Utf8Decode(arg.s)

\* C16: backend selection at construction.  The in-memory sentinel, in any
\* case, as text or bytes, yields a fresh empty transient map; any other text
\* or byte path yields the persistent store, opened with that path and with
\* the caller's flag ('c', 'n', 'w' or 'r'), 'c' when the caller gives none
\* (for 'w' and 'r' provided the file exists); any other object is used as it
\* is.
C16_BackendSelection ==
  last.op = "construct" =>
    IF last.arg.type = "object"
    THEN /\ last.exc = NoExc
         /\ database.handle = [kind |-> last.arg.kind, data |-> last.arg.data, closed |-> FALSE]
    ELSE IF ArgText(last.arg) \in {Sentinel, SentinelUpper, SentinelMixed}
    THEN /\ last.exc = NoExc
         /\ database.handle = [kind |-> "memory", data |-> Empty, closed |-> FALSE]
    ELSE LET flag == IF last.flag = "" THEN "c" ELSE last.flag IN
         (flag \in {"c", "n"} \/ last.pre.file.exists)
           => /\ last.exc = NoExc
              /\ database.handle.kind = database.module
              /\ last.opened = [path |-> ArgText(last.arg), flag |-> flag]

====
